---- MODULE Spec2Model ----
(***************************************************************************)
(* A model of src/main.py: the WebSocket frame codec (WebSocketFrame), the *)
(* server (WebSocketServer: handshake, listener loop, per-connection       *)
(* session threads, broadcast hub, stop) and the network peers it talks to.*)
(*                                                                         *)
(* Threads interleave between any two accesses to shared state (the        *)
(* clients dict, the running flag, a socket): every such access is one     *)
(* step of the thread that makes it.  Computation on locals is folded into *)
(* the step that follows it.                                               *)
(***************************************************************************)
EXTENDS Integers, Sequences, FiniteSets, TLC

(***************************************************************************)
(* Bounds of the model.                                                    *)
(***************************************************************************)
\* connections the listener accepts in one run
NumConns == 3
\* frames (text, ping, close) the admitted clients send in one run
MaxFrames == 1
\* peers that reset their connection in one run
MaxReset == 1
\* events from outside in one run: client frames, resets, the stop request
MaxEvents == 2
\* connections the listener accepts in a run in which stop() is called
StopConns == 2
\* client frames waiting unread on one socket
MaxInflight == 1
\* connections the listener accepts in a run with reads of every grouping
ReadConns == 2
\* connections the listener accepts in a run with silent clients
LiveConns == 2

Conns == 1..NumConns

(***************************************************************************)
(* Bytes and bit operations.                                               *)
(***************************************************************************)
Byte == 0..255

RECURSIVE BitXor(_, _)
\* a ^ b on naturals
BitXor(a, b) ==
    IF a = 0 THEN b
    ELSE IF b = 0 THEN a
    ELSE (((a % 2) + (b % 2)) % 2) + 2 * BitXor(a \div 2, b \div 2)

\* struct.pack(">H" / ">I" / ">Q", n): n as `width` big-endian bytes
RECURSIVE Pack(_, _)
Pack(n, width) ==
    IF width = 0 THEN <<>>
    ELSE Append(Pack(n \div 256, width - 1), n % 256)

\* struct.unpack(">H" / ">Q", bytes)[0]
RECURSIVE Unpack(_)
Unpack(bytes) ==
    IF bytes = <<>> THEN 0
    ELSE Unpack(SubSeq(bytes, 1, Len(bytes) - 1)) * 256 + bytes[Len(bytes)]

\* data[lo:hi] of Python, 0-based, clipped to the data
Slice(data, lo, hi) ==
    SubSeq(data, lo + 1, IF hi < Len(data) THEN hi ELSE Len(data))

\* byte ^ key[i % 4] over the payload, i counted from 0
MaskBytes(payload, key) ==
    [i \in 1..Len(payload) |-> BitXor(payload[i], key[((i - 1) % 4) + 1])]

(***************************************************************************)
(* WebSocketFrame, src/main.py:15-90.                                      *)
(***************************************************************************)
OPCODE_CONT == 0
OPCODE_TEXT == 1
OPCODE_BINARY == 2
OPCODE_CLOSE == 8
OPCODE_PING == 9
OPCODE_PONG == 10

\* struct.pack(">I", int(time.time() * 1000) % 0xFFFFFFFF), where t stands for
\* the residue int(time.time() * 1000) % 0xFFFFFFFF the clock gives
masking_key(t) == Pack(t, 4)

\* create_frame with the test of line 38 as payload_len <= 126
create_frame_short126(payload, opcode, mask, t) ==
    LET payload_len == Len(payload)
        head == <<128 + opcode>>
        len  == IF payload_len <= 126 THEN <<128 + payload_len>>
                ELSE IF payload_len <= 65535
                     THEN <<128 + 126>> \o Pack(payload_len, 2)
                     ELSE <<128 + 127>> \o Pack(payload_len, 8)
        key  == masking_key(t)
    IN  head \o len \o key \o MaskBytes(payload, key)

\* create_frame(payload, opcode, mask) at clock residue t.  The mask argument
\* is never read by the code: the MASK bit is set and a key is written always.
create_frame(payload, opcode, mask, t) ==
    LET payload_len == Len(payload)
        head == <<128 + opcode>>
        len  == IF payload_len <= 125 THEN <<128 + payload_len>>
                ELSE IF payload_len <= 65535
                     THEN <<128 + 126>> \o Pack(payload_len, 2)
                     ELSE <<128 + 127>> \o Pack(payload_len, 8)
        key  == masking_key(t)
    IN  head \o len \o key \o MaskBytes(payload, key)

\* The "incomplete" result of parse_frame: (None, None, 0, False, 0).
Incomplete ==
    [opcode |-> -1, payload |-> <<>>, payload_len |-> 0, fin |-> FALSE, frame_len |-> 0]

\* parse_frame without the test of line 82
parse_frame_unchecked(data) ==
    IF Len(data) < 2 THEN Incomplete
    ELSE
      LET byte1 == data[1]
          fin == (byte1 \div 128) = 1
          opcode == byte1 % 16
          byte2 == data[2]
          mask == (byte2 \div 128) = 1
          len7 == byte2 % 128
          short == (len7 = 126 /\ Len(data) < 4) \/ (len7 = 127 /\ Len(data) < 10)
          payload_len == IF len7 = 126 THEN Unpack(Slice(data, 2, 4))
                         ELSE IF len7 = 127 THEN Unpack(Slice(data, 2, 10))
                         ELSE len7
          ext == IF len7 = 126 THEN 2 ELSE IF len7 = 127 THEN 8 ELSE 0
          header_size == 2 + ext + (IF mask THEN 4 ELSE 0)
          key == Slice(data, header_size - 4, header_size)
          raw == Slice(data, header_size, header_size + payload_len)
      IN  IF short THEN Incomplete
          ELSE [opcode |-> opcode,
                payload |-> IF mask THEN MaskBytes(raw, key) ELSE raw,
                payload_len |-> payload_len,
                fin |-> fin,
                frame_len |-> header_size + payload_len]

\* parse_frame(data): (opcode, payload, payload_len, fin, frame_len); opcode -1 is None
parse_frame(data) ==
    IF Len(data) < 2 THEN Incomplete
    ELSE
      LET byte1 == data[1]
          fin == (byte1 \div 128) = 1
          opcode == byte1 % 16
          byte2 == data[2]
          mask == (byte2 \div 128) = 1
          len7 == byte2 % 128
          short == (len7 = 126 /\ Len(data) < 4) \/ (len7 = 127 /\ Len(data) < 10)
          payload_len == IF len7 = 126 THEN Unpack(Slice(data, 2, 4))
                         ELSE IF len7 = 127 THEN Unpack(Slice(data, 2, 10))
                         ELSE len7
          ext == IF len7 = 126 THEN 2 ELSE IF len7 = 127 THEN 8 ELSE 0
          header_size == 2 + ext + (IF mask THEN 4 ELSE 0)
          key == Slice(data, header_size - 4, header_size)
          raw == Slice(data, header_size, header_size + payload_len)
      IN  IF short THEN Incomplete
          ELSE IF Len(data) < header_size + payload_len THEN Incomplete
          ELSE [opcode |-> opcode,
                payload |-> IF mask THEN MaskBytes(raw, key) ELSE raw,
                payload_len |-> payload_len,
                fin |-> fin,
                frame_len |-> header_size + payload_len]

\* the MASK bit of a frame's second byte, as a receiver reads it
MaskBit(frame) == (frame[2] \div 128) = 1

(***************************************************************************)
(* Text: str values are sequences of code points below 0x800; bytes are    *)
(* sequences of Byte.                                                      *)
(***************************************************************************)
RECURSIVE utf8_encode(_)
\* str.encode('utf-8')
utf8_encode(text) ==
    IF text = <<>> THEN <<>>
    ELSE LET cp == Head(text)
         IN  (IF cp < 128 THEN <<cp>> ELSE <<192 + (cp \div 64), 128 + (cp % 64)>>)
             \o utf8_encode(Tail(text))

RECURSIVE utf8_valid(_)
\* whether bytes.decode('utf-8') returns (TRUE) or raises UnicodeDecodeError
utf8_valid(bytes) ==
    IF bytes = <<>> THEN TRUE
    ELSE IF Head(bytes) < 128 THEN utf8_valid(Tail(bytes))
    ELSE IF Head(bytes) >= 194 /\ Head(bytes) <= 223 /\ Len(bytes) >= 2
            /\ bytes[2] >= 128 /\ bytes[2] <= 191
         THEN utf8_valid(Tail(Tail(bytes)))
    ELSE FALSE

RECURSIVE utf8_decode(_)
\* bytes.decode('utf-8') of valid bytes
utf8_decode(bytes) ==
    IF bytes = <<>> THEN <<>>
    ELSE IF Head(bytes) < 128 THEN <<Head(bytes)>> \o utf8_decode(Tail(bytes))
    ELSE <<(Head(bytes) - 192) * 64 + (bytes[2] - 128)>> \o utf8_decode(Tail(Tail(bytes)))

\* " joined the chat"
JoinedSuffix == <<32, 106, 111, 105, 110, 101, 100, 32, 116, 104, 101, 32, 99, 104, 97, 116>>
\* " has left the chat"
LeftSuffix == <<32, 104, 97, 115, 32, 108, 101, 102, 116, 32, 116, 104, 101, 32, 99, 104, 97, 116>>

\* f"{username} joined the chat"
JoinText(username) == username \o JoinedSuffix
\* f"{username} has left the chat"
LeaveText(username) == username \o LeftSuffix

(***************************************************************************)
(* WebSocketServer._handshake, src/main.py:108-134.  A decoded request is  *)
(* its method and its lines after the request line; a line is a header     *)
(* when it holds ": " (sep), and then splits into name and val.            *)
(***************************************************************************)
\* str.lower() on the header names and values the requests of the model use
Lower(s) ==
    CASE s = "Upgrade" -> "upgrade"
      [] s = "UPGRADE" -> "upgrade"
      [] s = "Connection" -> "connection"
      [] s = "Sec-WebSocket-Key" -> "sec-websocket-key"
      [] s = "Host" -> "host"
      [] s = "WebSocket" -> "websocket"
      [] s = "keep-alive, Upgrade" -> "keep-alive, upgrade"
      [] OTHER -> s

\* needle in s, for the lowered values the requests of the model use
Contains(s, needle) ==
    \/ s = needle
    \/ s = "keep-alive, upgrade" /\ needle = "upgrade"

Line(name, val) == [name |-> name, sep |-> TRUE, val |-> val]
\* "Upgrade:websocket": no ": " in the line
LineNoSep(name, val) == [name |-> name, sep |-> FALSE, val |-> val]

HostLine == Line("Host", "127.0.0.1:8000")
UpgradeLine == Line("Upgrade", "websocket")
ConnectionLine == Line("Connection", "Upgrade")
KeyLine == Line("Sec-WebSocket-Key", "dGhlIHNhbXBsZSBub25jZQ==")

\* the upgrade requests a connecting client may send
Requests ==
    { [method |-> "GET",  lines |-> <<HostLine, UpgradeLine, ConnectionLine, KeyLine>>],
      [method |-> "GET",  lines |-> <<Line("UPGRADE", "WebSocket"),
                                      Line("connection", "keep-alive, Upgrade"),
                                      Line("sec-websocket-key", "dGhlIHNhbXBsZSBub25jZQ==")>>],
      [method |-> "GET",  lines |-> <<HostLine, ConnectionLine, KeyLine>>],
      [method |-> "GET",  lines |-> <<Line("Upgrade", "h2c"), ConnectionLine, KeyLine>>],
      [method |-> "GET",  lines |-> <<LineNoSep("Upgrade", "websocket"), ConnectionLine, KeyLine>>],
      [method |-> "GET",  lines |-> <<UpgradeLine, ConnectionLine>>],
      [method |-> "GET",  lines |-> <<UpgradeLine, KeyLine>>],
      [method |-> "GET",  lines |-> <<UpgradeLine, Line("Connection", "close"), KeyLine>>],
      [method |-> "POST", lines |-> <<HostLine, UpgradeLine, ConnectionLine, KeyLine>>],
      \* recv returned b'': the decoded request is the empty string
      [method |-> "",     lines |-> <<>>] }

\* headers[key]: the value of the last header line whose lowered name is key;
\* "" stands for `key not in headers`
RECURSIVE HeaderOf(_, _)
HeaderOf(lines, key) ==
    IF lines = <<>> THEN ""
    ELSE LET last == lines[Len(lines)]
         IN  IF last.sep /\ Lower(last.name) = key THEN last.val
             ELSE HeaderOf(SubSeq(lines, 1, Len(lines) - 1), key)

\* _handshake without the test of line 121 for 'sec-websocket-key'
handshake_accepts_keyless(request) ==
    /\ request.method = "GET"
    /\ ~ ( \/ HeaderOf(request.lines, "upgrade") = ""
           \/ ~Contains(Lower(HeaderOf(request.lines, "upgrade")), "websocket")
           \/ HeaderOf(request.lines, "connection") = ""
           \/ ~Contains(Lower(HeaderOf(request.lines, "connection")), "upgrade") )

\* the value _handshake returns for a decoded request
handshake_accepts(request) ==
    /\ request.method = "GET"
    /\ ~ ( \/ HeaderOf(request.lines, "upgrade") = ""
           \/ ~Contains(Lower(HeaderOf(request.lines, "upgrade")), "websocket")
           \/ HeaderOf(request.lines, "connection") = ""
           \/ ~Contains(Lower(HeaderOf(request.lines, "connection")), "upgrade")
           \/ HeaderOf(request.lines, "sec-websocket-key") = "" )

\* The request has no Upgrade header line naming websocket, or no
\* Sec-WebSocket-Key header line, or is not a GET request.
RequestLacks(request) ==
    \/ request.method # "GET"
    \/ ~\E i \in 1..Len(request.lines) :
          /\ request.lines[i].sep
          /\ Lower(request.lines[i].name) = "upgrade"
          /\ Contains(Lower(request.lines[i].val), "websocket")
    \/ ~\E i \in 1..Len(request.lines) :
          /\ request.lines[i].sep
          /\ Lower(request.lines[i].name) = "sec-websocket-key"

(***************************************************************************)
(* The server's state.                                                     *)
(***************************************************************************)
\* Thread ids: the session thread of connection c is c.
ListenerThread == NumConns + 1
StopThread == NumConns + 2
Threads == 1..(NumConns + 2)

\* sender_sock=None
NoSock == 0
\* the clock residue create_frame reads
Clock == 305419896

VARIABLES
    running,      \* WebSocketServer.running
    lsockClosed,  \* WebSocketServer.sock has been closed
    clients,      \* WebSocketServer.clients: the dict's items in insertion order
    nconn,        \* connections accepted so far; sockets are numbered 1, 2, ...
    sockClosed,   \* sockClosed[c]: the server called close() on socket c
    peer,         \* peer[c]: "none" (not connected), "up", "closing" (the client
                  \*   sent a close frame and sends no more), "reset", "silent"
                  \*   (connected, sends nothing and never closes)
    hs,           \* hs[c]: "none", "ok" (_handshake returned True), "failed"
                  \*   (returned False), "error" (raised)
    lacks,        \* lacks[c]: RequestLacks of the request c sent
    ident,        \* ident[c]: start() has read c's display name (line 207)
    http,         \* http[c]: the HTTP response written to socket c
    tx,           \* tx[c]: the frames written to socket c, as the peer parses them
    inflight,     \* inflight[c]: frames sent by client c, not yet read
    pc,           \* pc[t]: where thread t is in start / _handle_client / stop
    stack,        \* stack[t]: t's calls of broadcast / close_client, innermost last
    exc,          \* exc[t]: the exception propagating in (or that ended) thread t
    buffer,       \* buffer[c]: the local `buffer` of c's session
    cur,          \* start(): client_sock
    username,     \* start(): username
    todo,         \* stop(): the rest of list(self.clients.keys())
    nsent,        \* frames the admitted clients have sent so far
    calls,        \* history: the calls of broadcast so far, each with its message,
                  \*   its sender_sock, whether the sender was registered, and the
                  \*   sockets its loop is to write to
    removedWith,  \* history: removedWith[c] is the set of registered sockets at
                  \*   the moment c was popped from clients ({} while it was not)
    closeSeen,    \* history: the sockets whose session decoded a close frame
                  \*   while registered
    sent,         \* history: the chat frames the clients have written, each
                  \*   with its sender, its text, and in how many pieces
                  \*   its bytes arrived
    cin,          \* codec: the frame to encode: payload, opcode, the clock
                  \*   residue, who encodes it, its FIN bit
    cframe,       \* codec: the encoded frame
    cdata,        \* codec: the bytes handed to parse_frame so far
    cout,         \* codec: what parse_frame returned for cdata
    wrote,        \* client: the texts the server has written to the client's socket
    wire,         \* client: the bytes on their way to the client, unread
    connected,    \* WebSocketClient.connected
    rpc,          \* client: where its reader thread is in receive_messages / receive
    rbuf,         \* receive(): the local `buffer`
    got           \* client: the values receive() returned to receive_messages that
                  \*   are messages (line 337)

vars == <<running, lsockClosed, clients, nconn, sockClosed, peer, hs, lacks, ident,
          http, tx, inflight, pc, stack, exc, buffer, cur, username, todo,
          nsent, calls, removedWith, closeSeen, sent,
          cin, cframe, cdata, cout, wrote, wire, connected, rpc, rbuf, got>>

netVars == <<nconn, peer, hs, lacks, ident, http, inflight, nsent>>
listenerVars == <<cur, username>>
historyVars == <<calls, removedWith, closeSeen, sent>>
serverVars == <<running, lsockClosed, clients, nconn, sockClosed, peer, hs, lacks, ident,
                http, tx, inflight, pc, stack, exc, buffer, cur, username, todo,
                nsent, calls, removedWith, closeSeen, sent>>
\* the codec on its own (create_frame, parse_frame)
codecVars == <<cin, cframe, cdata, cout>>
\* a WebSocketClient and the socket it reads
clientVars == <<wrote, wire, connected, rpc, rbuf, got>>

\* the server after __init__ (lines 100-106), no thread started
ServerInit ==
    /\ running = FALSE
    /\ lsockClosed = FALSE
    /\ clients = <<>>
    /\ nconn = 0
    /\ sockClosed = [c \in Conns |-> FALSE]
    /\ peer = [c \in Conns |-> "none"]
    /\ hs = [c \in Conns |-> "none"]
    /\ lacks = [c \in Conns |-> FALSE]
    /\ ident = [c \in Conns |-> FALSE]
    /\ http = [c \in Conns |-> "none"]
    /\ tx = [c \in Conns |-> <<>>]
    /\ inflight = [c \in Conns |-> <<>>]
    /\ pc = [t \in Threads |-> IF t = ListenerThread THEN "start" ELSE "idle"]
    /\ stack = [t \in Threads |-> <<>>]
    /\ exc = [t \in Threads |-> "none"]
    /\ buffer = [c \in Conns |-> <<>>]
    /\ cur = NoSock
    /\ username = <<>>
    /\ todo = <<>>
    /\ nsent = 0
    /\ calls = {}
    /\ removedWith = [c \in Conns |-> {}]
    /\ closeSeen = {}
    /\ sent = {}

\* no frame has been handed to the codec on its own
CodecIdle ==
    /\ cin = [payload |-> <<>>, opcode |-> OPCODE_TEXT, t |-> Clock,
              by |-> "create_frame", fin |-> TRUE]
    /\ cframe = <<>>
    /\ cdata = <<>>
    /\ cout = Incomplete

\* no WebSocketClient has been constructed
ClientIdle ==
    /\ wrote = <<>>
    /\ wire = <<>>
    /\ connected = FALSE
    /\ rpc = "idle"
    /\ rbuf = <<>>
    /\ got = <<>>

Init == ServerInit /\ CodecIdle /\ ClientIdle

(***************************************************************************)
(* Helpers over the registry and the sockets.                              *)
(***************************************************************************)
\* list(self.clients.keys())
Keys(d) == [i \in 1..Len(d) |-> d[i].sock]
\* sock in self.clients
InClients(sock) == \E i \in 1..Len(clients) : clients[i].sock = sock
\* self.clients[sock]
NameIn(d, sock) == d[CHOOSE i \in 1..Len(d) : d[i].sock = sock].username
\* the dict after self.clients.pop(sock)
Popped(d, sock) == SelectSeq(d, LAMBDA e : e.sock # sock)

\* the peers that have reset their connection
Resets == Cardinality({c \in Conns : peer[c] = "reset"})
\* the events from outside so far
Events == nsent + Resets + (IF pc[StopThread] # "idle" THEN 1 ELSE 0)

\* sock.send raises OSError: the descriptor is closed, or the peer has reset
SendFails(sock) == sockClosed[sock] \/ peer[sock] = "reset"

\* a frame as the peer reads it off the wire
Wire(frame) ==
    LET p == parse_frame(frame)
    IN  [opcode |-> p.opcode, mask |-> MaskBit(frame), payload |-> p.payload]

\* the sockets broadcast writes to: the snapshot's sockets but sender_sock
Targets(snapshot, sender_sock) == SelectSeq(snapshot, LAMBDA s : s # sender_sock)

BroadcastCall(message, sender_sock, snapshot) ==
    [fn |-> "broadcast", sock |-> sender_sock, at |-> "send", name |-> <<>>,
     message |-> message, targets |-> Targets(snapshot, sender_sock)]

CloseCall(sock) ==
    [fn |-> "close_client", sock |-> sock, at |-> "check", name |-> <<>>,
     message |-> <<>>, targets |-> <<>>]

\* the history entry of a call of broadcast(message, sender_sock)
CallRecord(message, sender_sock) ==
    [message |-> message, sender |-> sender_sock, registered |-> InClients(sender_sock),
     targets |-> {s \in {clients[i].sock : i \in 1..Len(clients)} : s # sender_sock}]

Top(stk) == stk[Len(stk)]
Pop(stk) == SubSeq(stk, 1, Len(stk) - 1)

\* returns: a broadcast whose loop has no target left returns to its caller
RECURSIVE Settle(_)
Settle(stk) ==
    IF stk # <<>> /\ Top(stk).fn = "broadcast" /\ Top(stk).targets = <<>>
    THEN Settle(Pop(stk))
    ELSE stk

\* thread t calls broadcast(message, sender_sock)
Call_broadcast(stk, message, sender_sock) ==
    Settle(Append(stk, BroadcastCall(message, sender_sock, Keys(clients))))

(***************************************************************************)
(* broadcast and close_client, src/main.py:170-190, run by any thread t.   *)
(***************************************************************************)
\* an exception no handler of the hub catches leaves every call of the stack;
\* a session's finally block (line 167) still runs, unless it is where it rose
Raise(t, e) ==
    /\ stack' = [stack EXCEPT ![t] = <<>>]
    /\ exc' = [exc EXCEPT ![t] = e]
    /\ pc' = [pc EXCEPT ![t] = IF t \in Conns /\ pc[t] # "exit" THEN "finally"
                                ELSE IF t \in Conns THEN "exit" ELSE "done"]

\* lines 173-178: one round of the loop, the send to the next socket
BroadcastSend(t) ==
    /\ stack[t] # <<>>
    /\ Top(stack[t]).fn = "broadcast"
    /\ LET f == Top(stack[t])
           sock == Head(f.targets)
           g == [f EXCEPT !.targets = Tail(f.targets)]
           frame == create_frame(utf8_encode(f.message), OPCODE_TEXT, TRUE, Clock)
       IN  IF SendFails(sock)
           THEN /\ stack' = [stack EXCEPT ![t] = Append(Append(Pop(stack[t]), g), CloseCall(sock))]
                /\ tx' = tx
           ELSE /\ tx' = [tx EXCEPT ![sock] = Append(tx[sock], Wire(frame))]
                /\ stack' = [stack EXCEPT ![t] = Settle(Append(Pop(stack[t]), g))]
    /\ UNCHANGED <<running, lsockClosed, clients, sockClosed, pc, exc, buffer, todo>>
    /\ UNCHANGED codecVars
    /\ UNCHANGED clientVars
    /\ UNCHANGED netVars
    /\ UNCHANGED listenerVars
    /\ UNCHANGED historyVars

\* line 182: if client_sock in self.clients
CloseCheck(t) ==
    /\ stack[t] # <<>>
    /\ Top(stack[t]).fn = "close_client"
    /\ Top(stack[t]).at = "check"
    /\ LET f == Top(stack[t])
       IN  stack' = [stack EXCEPT ![t] =
                        IF InClients(f.sock)
                        THEN Append(Pop(stack[t]), [f EXCEPT !.at = "pop"])
                        ELSE Settle(Pop(stack[t]))]
    /\ UNCHANGED <<running, lsockClosed, clients, sockClosed, tx, pc, exc, buffer, todo>>
    /\ UNCHANGED codecVars
    /\ UNCHANGED clientVars
    /\ UNCHANGED netVars
    /\ UNCHANGED listenerVars
    /\ UNCHANGED historyVars

\* line 183: username = self.clients.pop(client_sock); KeyError when absent
ClosePop(t) ==
    /\ stack[t] # <<>>
    /\ Top(stack[t]).fn = "close_client"
    /\ Top(stack[t]).at = "pop"
    /\ LET f == Top(stack[t])
       IN  IF InClients(f.sock)
           THEN /\ clients' = Popped(clients, f.sock)
                /\ removedWith' = [removedWith EXCEPT ![f.sock] =
                                      {clients[i].sock : i \in 1..Len(clients)}]
                /\ stack' = [stack EXCEPT ![t] = Append(Pop(stack[t]),
                                [f EXCEPT !.at = "send", !.name = NameIn(clients, f.sock)])]
                /\ UNCHANGED <<pc, exc>>
           ELSE /\ Raise(t, "KeyError")
                /\ UNCHANGED <<clients, removedWith>>
    /\ UNCHANGED <<running, lsockClosed, sockClosed, tx, buffer, todo, calls, closeSeen, sent>>
    /\ UNCHANGED codecVars
    /\ UNCHANGED clientVars
    /\ UNCHANGED netVars
    /\ UNCHANGED listenerVars

\* lines 184-186: client_sock.send(close_frame); OSError skips line 187
CloseSend(t) ==
    /\ stack[t] # <<>>
    /\ Top(stack[t]).fn = "close_client"
    /\ Top(stack[t]).at = "send"
    /\ LET f == Top(stack[t])
           close_frame == create_frame(<<>>, OPCODE_CLOSE, TRUE, Clock)
       IN  IF SendFails(f.sock)
           THEN /\ stack' = [stack EXCEPT ![t] = Append(Pop(stack[t]), [f EXCEPT !.at = "bcast"])]
                /\ tx' = tx
           ELSE /\ stack' = [stack EXCEPT ![t] = Append(Pop(stack[t]), [f EXCEPT !.at = "close"])]
                /\ tx' = [tx EXCEPT ![f.sock] = Append(tx[f.sock], Wire(close_frame))]
    /\ UNCHANGED <<running, lsockClosed, clients, sockClosed, pc, exc, buffer, todo>>
    /\ UNCHANGED codecVars
    /\ UNCHANGED clientVars
    /\ UNCHANGED netVars
    /\ UNCHANGED listenerVars
    /\ UNCHANGED historyVars

\* line 187: client_sock.close()
CloseClose(t) ==
    /\ stack[t] # <<>>
    /\ Top(stack[t]).fn = "close_client"
    /\ Top(stack[t]).at = "close"
    /\ LET f == Top(stack[t])
       IN  /\ sockClosed' = [sockClosed EXCEPT ![f.sock] = TRUE]
           /\ stack' = [stack EXCEPT ![t] = Append(Pop(stack[t]), [f EXCEPT !.at = "bcast"])]
    /\ UNCHANGED <<running, lsockClosed, clients, tx, pc, exc, buffer, todo>>
    /\ UNCHANGED codecVars
    /\ UNCHANGED clientVars
    /\ UNCHANGED netVars
    /\ UNCHANGED listenerVars
    /\ UNCHANGED historyVars

\* line 190: self.broadcast(f"{username} has left the chat"), the last statement
CloseBroadcast(t) ==
    /\ stack[t] # <<>>
    /\ Top(stack[t]).fn = "close_client"
    /\ Top(stack[t]).at = "bcast"
    /\ stack' = [stack EXCEPT ![t] =
                    Call_broadcast(Pop(stack[t]), LeaveText(Top(stack[t]).name), NoSock)]
    /\ UNCHANGED <<running, lsockClosed, clients, sockClosed, tx, pc, exc, buffer, todo>>
    /\ UNCHANGED codecVars
    /\ UNCHANGED clientVars
    /\ UNCHANGED netVars
    /\ UNCHANGED listenerVars
    /\ calls' = calls \cup {CallRecord(LeaveText(Top(stack[t]).name), NoSock)}
    /\ UNCHANGED <<removedWith, closeSeen, sent>>

(***************************************************************************)
(* The clients: what they send.                                            *)
(***************************************************************************)
RECURSIVE Concat(_)
\* the bytes waiting on a socket: the pieces written to it, end to end
Concat(frames) ==
    IF frames = <<>> THEN <<>> ELSE Head(frames) \o Concat(Tail(frames))

\* the display name client c submits
NameOf(c) == <<64 + c>>
\* the text of the k-th chat message of the run
ChatText(k) == <<233, 48 + k>>

\* what the recv of line 204 may return from client c: its name in a text
\* frame, a ping frame, a text frame that is not UTF-8, or b'' (end of stream)
IdentityReads(c) ==
    { create_frame(utf8_encode(NameOf(c)), OPCODE_TEXT, TRUE, Clock),
      create_frame(<<>>, OPCODE_PING, TRUE, Clock),
      create_frame(<<255>>, OPCODE_TEXT, TRUE, Clock),
      <<>> }

(***************************************************************************)
(* WebSocketServer.start, src/main.py:192-212: the listener thread.        *)
(***************************************************************************)
\* lines 194-196: bind, listen, running = True
Start ==
    /\ pc[ListenerThread] = "start"
    /\ IF lsockClosed
       THEN /\ pc' = [pc EXCEPT ![ListenerThread] = "done"]
            /\ exc' = [exc EXCEPT ![ListenerThread] = "OSError"]
            /\ running' = running
       ELSE /\ pc' = [pc EXCEPT ![ListenerThread] = "while"]
            /\ running' = TRUE
            /\ exc' = exc
    /\ UNCHANGED <<lsockClosed, clients, sockClosed, tx, stack, buffer, todo>>
    /\ UNCHANGED codecVars
    /\ UNCHANGED clientVars
    /\ UNCHANGED netVars
    /\ UNCHANGED listenerVars
    /\ UNCHANGED historyVars

\* line 199: while self.running
LoopTest ==
    /\ pc[ListenerThread] = "while"
    /\ pc' = [pc EXCEPT ![ListenerThread] = IF running THEN "accept" ELSE "done"]
    /\ UNCHANGED <<running, lsockClosed, clients, sockClosed, tx, stack, exc, buffer, todo>>
    /\ UNCHANGED codecVars
    /\ UNCHANGED clientVars
    /\ UNCHANGED netVars
    /\ UNCHANGED listenerVars
    /\ UNCHANGED historyVars

\* line 201: accept returns the next connection, or raises OSError (line 211);
\* the run accepts at most `most` connections
AcceptUpTo(most) ==
    /\ pc[ListenerThread] = "accept"
    /\ \/ /\ lsockClosed
          /\ pc' = [pc EXCEPT ![ListenerThread] = "done"]
          /\ UNCHANGED <<nconn, peer, cur>>
       \/ /\ ~lsockClosed
          /\ nconn < most
          /\ nconn' = nconn + 1
          /\ cur' = nconn + 1
          /\ peer' = [peer EXCEPT ![nconn + 1] = "up"]
          /\ pc' = [pc EXCEPT ![ListenerThread] = "handshake"]
    /\ UNCHANGED <<running, lsockClosed, clients, sockClosed, tx, stack, exc, buffer, todo>>
    /\ UNCHANGED codecVars
    /\ UNCHANGED clientVars
    /\ UNCHANGED <<hs, lacks, ident, http, inflight, nsent, username>>
    /\ UNCHANGED historyVars

\* line 201: accept returns the connection of a client that sends nothing
AcceptSilentUpTo(most) ==
    /\ pc[ListenerThread] = "accept"
    /\ ~lsockClosed
    /\ nconn < most
    /\ nconn' = nconn + 1
    /\ cur' = nconn + 1
    /\ peer' = [peer EXCEPT ![nconn + 1] = "silent"]
    /\ pc' = [pc EXCEPT ![ListenerThread] = "handshake"]
    /\ UNCHANGED <<running, lsockClosed, clients, sockClosed, tx, stack, exc, buffer, todo>>
    /\ UNCHANGED codecVars
    /\ UNCHANGED clientVars
    /\ UNCHANGED <<hs, lacks, ident, http, inflight, nsent, username>>
    /\ UNCHANGED historyVars

\* line 202, _handshake (lines 108-134) on the request the client sends; the
\* recv of line 109 blocks while the client is silent
Handshake ==
    /\ pc[ListenerThread] = "handshake"
    /\ \/ \* recv raises ConnectionResetError: except OSError: break
          /\ peer[cur] = "reset"
          /\ hs' = [hs EXCEPT ![cur] = "error"]
          /\ pc' = [pc EXCEPT ![ListenerThread] = "done"]
          /\ UNCHANGED <<lacks, http, exc>>
       \/ \* the bytes are not UTF-8: UnicodeDecodeError leaves start()
          /\ peer[cur] = "up"
          /\ hs' = [hs EXCEPT ![cur] = "error"]
          /\ pc' = [pc EXCEPT ![ListenerThread] = "done"]
          /\ exc' = [exc EXCEPT ![ListenerThread] = "UnicodeDecodeError"]
          /\ UNCHANGED <<lacks, http>>
       \/ /\ peer[cur] = "up"
          /\ \E request \in Requests :
                /\ lacks' = [lacks EXCEPT ![cur] = RequestLacks(request)]
                /\ IF handshake_accepts(request)
                   THEN /\ hs' = [hs EXCEPT ![cur] = "ok"]
                        /\ http' = [http EXCEPT ![cur] = "101"]
                        /\ pc' = [pc EXCEPT ![ListenerThread] = "identity"]
                   ELSE /\ hs' = [hs EXCEPT ![cur] = "failed"]
                        /\ http' = http
                        /\ pc' = [pc EXCEPT ![ListenerThread] = "while"]
          /\ exc' = exc
    /\ UNCHANGED <<running, lsockClosed, clients, sockClosed, tx, stack, buffer, todo>>
    /\ UNCHANGED codecVars
    /\ UNCHANGED clientVars
    /\ UNCHANGED <<nconn, peer, ident, inflight, nsent>>
    /\ UNCHANGED listenerVars
    /\ UNCHANGED historyVars

\* lines 204-207: the first read after the handshake.  recv returns all that
\* is waiting: what the client sent first (b'' when it sent nothing and closed)
\* and whatever it sent after that; only the first frame is parsed, and `data`
\* is not kept
Identity ==
    /\ pc[ListenerThread] = "identity"
    /\ \/ /\ peer[cur] = "reset"
          /\ pc' = [pc EXCEPT ![ListenerThread] = "done"]
          /\ UNCHANGED <<ident, username, exc, inflight>>
       \/ /\ peer[cur] = "up"
          /\ inflight' = [inflight EXCEPT ![cur] = <<>>]
          /\ \E data \in {d \in IdentityReads(cur) : inflight[cur] = <<>> \/ d # <<>>} :
               LET p == parse_frame(data \o Concat(inflight[cur]))
               IN  IF p.opcode # OPCODE_TEXT
                   THEN /\ pc' = [pc EXCEPT ![ListenerThread] = "while"]
                        /\ UNCHANGED <<ident, username, exc>>
                   ELSE IF utf8_valid(p.payload)
                   THEN /\ pc' = [pc EXCEPT ![ListenerThread] = "admit"]
                        /\ ident' = [ident EXCEPT ![cur] = TRUE]
                        /\ username' = utf8_decode(p.payload)
                        /\ exc' = exc
                   ELSE /\ pc' = [pc EXCEPT ![ListenerThread] = "done"]
                        /\ exc' = [exc EXCEPT ![ListenerThread] = "UnicodeDecodeError"]
                        /\ UNCHANGED <<ident, username>>
    /\ UNCHANGED <<running, lsockClosed, clients, sockClosed, tx, stack, buffer, todo>>
    /\ UNCHANGED codecVars
    /\ UNCHANGED clientVars
    /\ UNCHANGED <<nconn, peer, hs, lacks, http, nsent, cur>>
    /\ UNCHANGED historyVars

\* line 208: self.clients[client_sock] = username
Admit ==
    /\ pc[ListenerThread] = "admit"
    /\ clients' = Append(clients, [sock |-> cur, username |-> username])
    /\ pc' = [pc EXCEPT ![ListenerThread] = "join"]
    /\ UNCHANGED <<running, lsockClosed, sockClosed, tx, stack, exc, buffer, todo>>
    /\ UNCHANGED codecVars
    /\ UNCHANGED clientVars
    /\ UNCHANGED netVars
    /\ UNCHANGED listenerVars
    /\ UNCHANGED historyVars

\* line 209: self.broadcast(f"{username} joined the chat")
Join ==
    /\ pc[ListenerThread] = "join"
    /\ stack' = [stack EXCEPT ![ListenerThread] = Call_broadcast(<<>>, JoinText(username), NoSock)]
    /\ pc' = [pc EXCEPT ![ListenerThread] = "spawn"]
    /\ UNCHANGED <<running, lsockClosed, clients, sockClosed, tx, exc, buffer, todo>>
    /\ UNCHANGED codecVars
    /\ UNCHANGED clientVars
    /\ UNCHANGED netVars
    /\ UNCHANGED listenerVars
    /\ calls' = calls \cup {CallRecord(JoinText(username), NoSock)}
    /\ UNCHANGED <<removedWith, closeSeen, sent>>

\* line 210: the session thread of client_sock starts
Spawn ==
    /\ pc[ListenerThread] = "spawn"
    /\ stack[ListenerThread] = <<>>
    /\ pc' = [pc EXCEPT ![ListenerThread] = "while", ![cur] = "loop"]
    /\ UNCHANGED <<running, lsockClosed, clients, sockClosed, tx, stack, exc, buffer, todo>>
    /\ UNCHANGED codecVars
    /\ UNCHANGED clientVars
    /\ UNCHANGED netVars
    /\ UNCHANGED listenerVars
    /\ UNCHANGED historyVars

(***************************************************************************)
(* WebSocketServer._handle_client, src/main.py:136-168: the session thread *)
(* of connection c.  It is over when pc[c] = "exit" and its stack is empty.*)
(***************************************************************************)
\* where the loop of line 149 goes on with what is left of the buffer
AfterFrame(rest) == IF rest = <<>> THEN "loop" ELSE "dispatch"

\* line 139: while self.running
SessionLoopTest(c) ==
    /\ pc[c] = "loop"
    /\ stack[c] = <<>>
    /\ pc' = [pc EXCEPT ![c] = IF running THEN "select" ELSE "finally"]
    /\ UNCHANGED <<running, lsockClosed, clients, sockClosed, tx, stack, exc, buffer, todo>>
    /\ UNCHANGED codecVars
    /\ UNCHANGED clientVars
    /\ UNCHANGED netVars
    /\ UNCHANGED listenerVars
    /\ UNCHANGED historyVars

\* lines 140-148: select and recv
SessionRecv(c) ==
    /\ pc[c] = "select"
    /\ \/ \* select on a closed socket: ValueError (fileno is -1), not caught
          /\ sockClosed[c]
          /\ pc' = [pc EXCEPT ![c] = "finally"]
          /\ exc' = [exc EXCEPT ![c] = "ValueError"]
          /\ UNCHANGED <<buffer, inflight>>
       \/ \* the socket is closed between select and recv: OSError, line 165
          /\ sockClosed[c]
          /\ pc' = [pc EXCEPT ![c] = "finally"]
          /\ UNCHANGED <<buffer, inflight, exc>>
       \/ \* recv returns all that is waiting; line 148: buffer = data
          /\ ~sockClosed[c]
          /\ inflight[c] # <<>>
          /\ buffer' = [buffer EXCEPT ![c] = Concat(inflight[c])]
          /\ inflight' = [inflight EXCEPT ![c] = <<>>]
          /\ pc' = [pc EXCEPT ![c] = "dispatch"]
          /\ exc' = exc
       \/ \* recv returns the piece that has arrived so far
          /\ ~sockClosed[c]
          /\ Len(inflight[c]) > 1
          /\ buffer' = [buffer EXCEPT ![c] = Head(inflight[c])]
          /\ inflight' = [inflight EXCEPT ![c] = Tail(inflight[c])]
          /\ pc' = [pc EXCEPT ![c] = "dispatch"]
          /\ exc' = exc
       \/ \* recv returns b'' (line 145) or raises ConnectionResetError (165)
          /\ ~sockClosed[c]
          /\ inflight[c] = <<>>
          /\ peer[c] \in {"closing", "reset"}
          /\ pc' = [pc EXCEPT ![c] = "finally"]
          /\ UNCHANGED <<buffer, inflight, exc>>
    /\ UNCHANGED <<running, lsockClosed, clients, sockClosed, tx, stack, todo>>
    /\ UNCHANGED codecVars
    /\ UNCHANGED clientVars
    /\ UNCHANGED <<nconn, peer, hs, lacks, ident, http, nsent>>
    /\ UNCHANGED listenerVars
    /\ UNCHANGED historyVars

\* lines 149-164: parse the next frame of the buffer and act on its opcode
SessionDispatch(c) ==
    /\ pc[c] = "dispatch"
    /\ stack[c] = <<>>
    /\ LET p == parse_frame(buffer[c])
           rest == Slice(buffer[c], p.frame_len, Len(buffer[c]))
       IN  CASE p.opcode = -1 ->
                  \* line 152: break, with the bytes still in `buffer`
                  /\ pc' = [pc EXCEPT ![c] = "loop"]
                  /\ buffer' = buffer
                  /\ UNCHANGED <<stack, exc, tx, calls, closeSeen>>
             [] p.opcode = OPCODE_TEXT /\ utf8_valid(p.payload) ->
                  /\ stack' = [stack EXCEPT ![c] = Call_broadcast(<<>>, utf8_decode(p.payload), c)]
                  /\ pc' = [pc EXCEPT ![c] = AfterFrame(rest)]
                  /\ buffer' = [buffer EXCEPT ![c] = rest]
                  /\ calls' = calls \cup {CallRecord(utf8_decode(p.payload), c)}
                  /\ UNCHANGED <<exc, tx, closeSeen>>
             [] p.opcode = OPCODE_TEXT /\ ~utf8_valid(p.payload) ->
                  /\ exc' = [exc EXCEPT ![c] = "UnicodeDecodeError"]
                  /\ pc' = [pc EXCEPT ![c] = "finally"]
                  /\ buffer' = [buffer EXCEPT ![c] = <<>>]
                  /\ UNCHANGED <<stack, tx, calls, closeSeen>>
             [] p.opcode = OPCODE_CLOSE ->
                  /\ stack' = [stack EXCEPT ![c] = <<CloseCall(c)>>]
                  /\ pc' = [pc EXCEPT ![c] = "finally"]
                  /\ buffer' = [buffer EXCEPT ![c] = <<>>]
                  /\ closeSeen' = IF InClients(c) THEN closeSeen \cup {c} ELSE closeSeen
                  /\ UNCHANGED <<exc, tx, calls>>
             [] p.opcode = OPCODE_PING /\ SendFails(c) ->
                  /\ pc' = [pc EXCEPT ![c] = "finally"]
                  /\ buffer' = [buffer EXCEPT ![c] = <<>>]
                  /\ UNCHANGED <<stack, exc, tx, calls, closeSeen>>
             [] p.opcode = OPCODE_PING /\ ~SendFails(c) ->
                  /\ tx' = [tx EXCEPT ![c] = Append(tx[c],
                                Wire(create_frame(<<>>, OPCODE_PONG, TRUE, Clock)))]
                  /\ pc' = [pc EXCEPT ![c] = AfterFrame(rest)]
                  /\ buffer' = [buffer EXCEPT ![c] = rest]
                  /\ UNCHANGED <<stack, exc, calls, closeSeen>>
             [] OTHER ->
                  /\ pc' = [pc EXCEPT ![c] = AfterFrame(rest)]
                  /\ buffer' = [buffer EXCEPT ![c] = rest]
                  /\ UNCHANGED <<stack, exc, tx, calls, closeSeen>>
    /\ UNCHANGED <<running, lsockClosed, clients, sockClosed, todo>>
    /\ UNCHANGED codecVars
    /\ UNCHANGED clientVars
    /\ UNCHANGED netVars
    /\ UNCHANGED listenerVars
    /\ UNCHANGED <<removedWith, sent>>

\* lines 167-168: finally: self.close_client(client_sock)
SessionFinally(c) ==
    /\ pc[c] = "finally"
    /\ stack[c] = <<>>
    /\ stack' = [stack EXCEPT ![c] = <<CloseCall(c)>>]
    /\ pc' = [pc EXCEPT ![c] = "exit"]
    /\ UNCHANGED <<running, lsockClosed, clients, sockClosed, tx, exc, buffer, todo>>
    /\ UNCHANGED codecVars
    /\ UNCHANGED clientVars
    /\ UNCHANGED netVars
    /\ UNCHANGED listenerVars
    /\ UNCHANGED historyVars

SessionOver(c) == pc[c] = "exit" /\ stack[c] = <<>>

(***************************************************************************)
(* WebSocketServer.stop, src/main.py:214-219, run by the main thread.      *)
(***************************************************************************)
\* line 216: self.running = False.  stop() is called on a server that has
\* been started (run_chat_server, lines 316-324): start() is past line 196.
StopFlag ==
    /\ pc[StopThread] = "idle"
    /\ pc[ListenerThread] # "start"
    /\ Events < MaxEvents
    /\ running' = FALSE
    /\ pc' = [pc EXCEPT ![StopThread] = "snapshot"]
    /\ UNCHANGED <<lsockClosed, clients, sockClosed, tx, stack, exc, buffer, todo>>
    /\ UNCHANGED codecVars
    /\ UNCHANGED clientVars
    /\ UNCHANGED netVars
    /\ UNCHANGED listenerVars
    /\ UNCHANGED historyVars

\* line 217: list(self.clients.keys())
StopSnapshot ==
    /\ pc[StopThread] = "snapshot"
    /\ todo' = Keys(clients)
    /\ pc' = [pc EXCEPT ![StopThread] = "closing"]
    /\ UNCHANGED <<running, lsockClosed, clients, sockClosed, tx, stack, exc, buffer>>
    /\ UNCHANGED codecVars
    /\ UNCHANGED clientVars
    /\ UNCHANGED netVars
    /\ UNCHANGED listenerVars
    /\ UNCHANGED historyVars

\* lines 217-219: close_client on the next socket of the list, then sock.close()
StopNext ==
    /\ pc[StopThread] = "closing"
    /\ stack[StopThread] = <<>>
    /\ IF todo # <<>>
       THEN /\ stack' = [stack EXCEPT ![StopThread] = <<CloseCall(Head(todo))>>]
            /\ todo' = Tail(todo)
            /\ UNCHANGED <<lsockClosed, pc>>
       ELSE /\ lsockClosed' = TRUE
            /\ pc' = [pc EXCEPT ![StopThread] = "done"]
            /\ UNCHANGED <<stack, todo>>
    /\ UNCHANGED <<running, clients, sockClosed, tx, exc, buffer>>
    /\ UNCHANGED codecVars
    /\ UNCHANGED clientVars
    /\ UNCHANGED netVars
    /\ UNCHANGED listenerVars
    /\ UNCHANGED historyVars

(***************************************************************************)
(* The peers.                                                              *)
(***************************************************************************)
\* the application data a client puts in a ping frame
PingPayloads == {<<>>, <<80>>}

\* client c, admitted or about to be, sends one more frame: a chat message,
\* a ping, or a close frame (after which it sends nothing)
ClientSend(c) ==
    /\ ident[c]
    /\ peer[c] = "up"
    /\ ~SessionOver(c)
    /\ Len(inflight[c]) < MaxInflight
    /\ nsent < MaxFrames
    /\ Events < MaxEvents
    /\ nsent' = nsent + 1
    /\ \/ /\ inflight' = [inflight EXCEPT ![c] = Append(inflight[c],
                 create_frame(utf8_encode(ChatText(nsent + 1)), OPCODE_TEXT, TRUE, Clock))]
          /\ sent' = sent \cup {[sender |-> c, message |-> ChatText(nsent + 1), pieces |-> 1]}
          /\ peer' = peer
       \/ /\ \E payload \in PingPayloads :
                inflight' = [inflight EXCEPT ![c] = Append(inflight[c],
                    create_frame(payload, OPCODE_PING, TRUE, Clock))]
          /\ UNCHANGED <<peer, sent>>
       \/ /\ inflight' = [inflight EXCEPT ![c] = Append(inflight[c],
                 create_frame(<<>>, OPCODE_CLOSE, TRUE, Clock))]
          /\ peer' = [peer EXCEPT ![c] = "closing"]
          /\ sent' = sent
    /\ UNCHANGED <<running, lsockClosed, clients, sockClosed, tx, pc, stack, exc, buffer, todo>>
    /\ UNCHANGED codecVars
    /\ UNCHANGED clientVars
    /\ UNCHANGED <<nconn, hs, lacks, ident, http>>
    /\ UNCHANGED listenerVars
    /\ UNCHANGED <<calls, removedWith, closeSeen>>

\* client c, whose handshake is done, sends a chat message right after its
\* name, before start() has read the name (line 204)
ClientSendEarly(c) ==
    /\ pc[ListenerThread] = "identity"
    /\ cur = c
    /\ peer[c] = "up"
    /\ inflight[c] = <<>>
    /\ nsent < MaxFrames
    /\ Events < MaxEvents
    /\ nsent' = nsent + 1
    /\ inflight' = [inflight EXCEPT ![c] =
            <<create_frame(utf8_encode(ChatText(nsent + 1)), OPCODE_TEXT, TRUE, Clock)>>]
    /\ sent' = sent \cup {[sender |-> c, message |-> ChatText(nsent + 1), pieces |-> 1]}
    /\ UNCHANGED <<running, lsockClosed, clients, sockClosed, tx, pc, stack, exc, buffer, todo>>
    /\ UNCHANGED codecVars
    /\ UNCHANGED clientVars
    /\ UNCHANGED <<nconn, peer, hs, lacks, ident, http>>
    /\ UNCHANGED listenerVars
    /\ UNCHANGED <<calls, removedWith, closeSeen>>

\* client c sends a chat message whose bytes arrive in two pieces, cut at any
\* offset of the frame
ClientSendSplit(c) ==
    /\ ident[c]
    /\ peer[c] = "up"
    /\ ~SessionOver(c)
    /\ inflight[c] = <<>>
    /\ nsent < MaxFrames
    /\ Events < MaxEvents
    /\ nsent' = nsent + 1
    /\ LET frame == create_frame(utf8_encode(ChatText(nsent + 1)), OPCODE_TEXT, TRUE, Clock)
       IN  \E k \in 1..(Len(frame) - 1) :
              inflight' = [inflight EXCEPT ![c] =
                  <<SubSeq(frame, 1, k), SubSeq(frame, k + 1, Len(frame))>>]
    /\ sent' = sent \cup {[sender |-> c, message |-> ChatText(nsent + 1), pieces |-> 2]}
    /\ UNCHANGED <<running, lsockClosed, clients, sockClosed, tx, pc, stack, exc, buffer, todo>>
    /\ UNCHANGED codecVars
    /\ UNCHANGED clientVars
    /\ UNCHANGED <<nconn, peer, hs, lacks, ident, http>>
    /\ UNCHANGED listenerVars
    /\ UNCHANGED <<calls, removedWith, closeSeen>>

\* client c, whose handshake is done, never sends its name
GoSilent(c) ==
    /\ pc[ListenerThread] = "identity"
    /\ cur = c
    /\ peer[c] = "up"
    /\ inflight[c] = <<>>
    /\ peer' = [peer EXCEPT ![c] = "silent"]
    /\ UNCHANGED <<running, lsockClosed, clients, sockClosed, tx, pc, stack, exc, buffer, todo>>
    /\ UNCHANGED codecVars
    /\ UNCHANGED clientVars
    /\ UNCHANGED <<nconn, hs, lacks, ident, http, inflight, nsent>>
    /\ UNCHANGED listenerVars
    /\ UNCHANGED historyVars

\* the connection of client c is reset; what it sent and was not read is lost
PeerReset(c) ==
    /\ peer[c] \in {"up", "closing"}
    /\ hs[c] \in {"none", "ok"}
    /\ ~sockClosed[c]
    /\ ~SessionOver(c)
    /\ Resets < MaxReset
    /\ Events < MaxEvents
    /\ peer' = [peer EXCEPT ![c] = "reset"]
    /\ inflight' = [inflight EXCEPT ![c] = <<>>]
    /\ UNCHANGED <<running, lsockClosed, clients, sockClosed, tx, pc, stack, exc, buffer, todo>>
    /\ UNCHANGED codecVars
    /\ UNCHANGED clientVars
    /\ UNCHANGED <<nconn, hs, lacks, ident, http, nsent>>
    /\ UNCHANGED listenerVars
    /\ UNCHANGED historyVars

(***************************************************************************)
(* The specification.                                                      *)
(***************************************************************************)
Hub(t) ==
    \/ BroadcastSend(t)
    \/ CloseCheck(t)
    \/ ClosePop(t)
    \/ CloseSend(t)
    \/ CloseClose(t)
    \/ CloseBroadcast(t)

Accept == AcceptUpTo(NumConns)
AcceptBeforeStop == AcceptUpTo(StopConns)

Listener == Start \/ LoopTest \/ Handshake \/ Identity \/ Admit \/ Join \/ Spawn

Session(c) ==
    \/ SessionLoopTest(c)
    \/ SessionRecv(c)
    \/ SessionDispatch(c)
    \/ SessionFinally(c)

Stopper == StopFlag \/ StopSnapshot \/ StopNext

\* The server while nobody calls stop(): running stays True.  A call of stop()
\* makes every session leave its loop at once, which multiplies the reachable
\* states; the runs with stop() are NextStop, with fewer connections.
Next ==
    \/ Accept
    \/ Listener
    \/ \E c \in Conns : Session(c)
    \/ \E t \in Threads : Hub(t)
    \/ \E c \in Conns : ClientSend(c)
    \/ \E c \in Conns : PeerReset(c)

Spec == Init /\ [][Next]_vars

\* the server with stop() called at any moment
NextStop ==
    \/ AcceptBeforeStop
    \/ Listener
    \/ Stopper
    \/ \E c \in Conns : Session(c)
    \/ \E t \in Threads : Hub(t)
    \/ \E c \in Conns : ClientSend(c)
    \/ \E c \in Conns : PeerReset(c)

SpecStop == Init /\ [][NextStop]_vars

\* the server with clients whose frames are grouped into reads in every way:
\* a chat frame in the same read as the name, a frame in two reads
AcceptReads == AcceptUpTo(ReadConns)

NextReads ==
    \/ AcceptReads
    \/ Listener
    \/ \E c \in Conns : Session(c)
    \/ \E t \in Threads : Hub(t)
    \/ \E c \in Conns : ClientSend(c)
    \/ \E c \in Conns : ClientSendEarly(c)
    \/ \E c \in Conns : ClientSendSplit(c)
    \/ \E c \in Conns : PeerReset(c)

SpecReads == Init /\ [][NextReads]_vars

\* the server with clients that may stay silent, its threads scheduled fairly
AcceptLive == AcceptUpTo(LiveConns)
AcceptSilent == AcceptSilentUpTo(LiveConns)

NextLive ==
    \/ AcceptLive
    \/ AcceptSilent
    \/ Listener
    \/ \E c \in Conns : Session(c)
    \/ \E t \in Threads : Hub(t)
    \/ \E c \in Conns : ClientSend(c)
    \/ \E c \in Conns : GoSilent(c)
    \/ \E c \in Conns : PeerReset(c)

\* The statements of start() are executed whenever they can be: the listener
\* thread is scheduled unless it is blocked in a system call.  A client that
\* is "up" sends what the server waits for, so the recv of lines 109 and 204
\* returns; for a silent client it never does (the sockets have no timeout).
SpecLive ==
    /\ Init
    /\ [][NextLive]_vars
    /\ WF_vars(Start)
    /\ WF_vars(LoopTest)
    /\ WF_vars(AcceptLive)
    /\ WF_vars(Handshake)
    /\ WF_vars(Identity)
    /\ WF_vars(Admit)
    /\ WF_vars(Join)
    /\ WF_vars(Spawn)

(***************************************************************************)
(* The codec on its own: a frame is encoded, then handed to parse_frame    *)
(* piece by piece, the caller accumulating the bytes (buffer += data) and  *)
(* calling parse_frame on all it has after every piece.                    *)
(***************************************************************************)
\* payload lengths around the boundaries of the three length encodings
SmallLens == {0, 1, 2, 5, 125, 126, 127}
BigLens == {65535, 65536}
\* split offsets are taken up to this far from the start of a frame (the
\* longest header has 14 bytes), at its middle, and at its last two bytes
NearStart == 16

\* a payload of n bytes
Payload(n) == [i \in 1..n |-> (i * 37) % 256]

\* the 4-bit opcodes
Opcodes == 0..15
\* clock residues create_frame may read
Clocks == {0, Clock, 2147483647}

\* the frames to encode: by create_frame, or by a peer that does not mask and
\* may clear FIN
CodecInputs ==
    {[payload |-> Payload(n), opcode |-> o, t |-> t, by |-> "create_frame", fin |-> TRUE] :
        n \in SmallLens, o \in Opcodes, t \in Clocks}
    \cup
    {[payload |-> Payload(n), opcode |-> o, t |-> 0, by |-> "peer", fin |-> f] :
        n \in SmallLens, o \in Opcodes, f \in BOOLEAN}
    \cup
    {[payload |-> Payload(n), opcode |-> o, t |-> Clock, by |-> "create_frame", fin |-> TRUE] :
        n \in BigLens, o \in {OPCODE_TEXT, OPCODE_BINARY}}
    \cup
    {[payload |-> Payload(n), opcode |-> OPCODE_BINARY, t |-> 0, by |-> "peer", fin |-> TRUE] :
        n \in BigLens}

\* a frame as parse_frame reads it (lines 62-84) when the MASK bit is clear:
\* no masking key, the payload as it is
PlainFrame(payload, opcode, fin) ==
    LET payload_len == Len(payload)
        head == <<(IF fin THEN 128 ELSE 0) + opcode>>
        len  == IF payload_len <= 125 THEN <<payload_len>>
                ELSE IF payload_len <= 65535
                     THEN <<126>> \o Pack(payload_len, 2)
                     ELSE <<127>> \o Pack(payload_len, 8)
    IN  head \o len \o payload

\* the lengths at which a frame of n bytes is cut
SplitOffsets(n) ==
    {k \in 1..(n - 1) : k <= NearStart \/ k >= n - 2 \/ k = n \div 2}

InitCodec ==
    /\ ServerInit
    /\ ClientIdle
    /\ cin \in CodecInputs
    /\ cframe = <<>>
    /\ cdata = <<>>
    /\ cout = Incomplete

\* create_frame(payload, opcode)
Encode ==
    /\ cframe = <<>>
    /\ cin.by = "create_frame"
    /\ cframe' = create_frame(cin.payload, cin.opcode, TRUE, cin.t)
    /\ UNCHANGED <<cin, cdata, cout>>
    /\ UNCHANGED serverVars
    /\ UNCHANGED clientVars

\* the peer encodes the frame without a mask
PeerEncode ==
    /\ cframe = <<>>
    /\ cin.by = "peer"
    /\ cframe' = PlainFrame(cin.payload, cin.opcode, cin.fin)
    /\ UNCHANGED <<cin, cdata, cout>>
    /\ UNCHANGED serverVars
    /\ UNCHANGED clientVars

\* the next piece of the frame arrives, up to offset k, and parse_frame is
\* called on the bytes accumulated so far
Feed ==
    /\ cframe # <<>>
    /\ Len(cdata) < Len(cframe)
    /\ \E k \in SplitOffsets(Len(cframe)) \cup {Len(cframe)} :
          /\ k > Len(cdata)
          /\ cdata' = cdata \o SubSeq(cframe, Len(cdata) + 1, k)
          /\ cout' = parse_frame(cdata')
    /\ UNCHANGED <<cin, cframe>>
    /\ UNCHANGED serverVars
    /\ UNCHANGED clientVars

NextCodec == Encode \/ PeerEncode \/ Feed

SpecCodec == InitCodec /\ [][NextCodec]_vars

(***************************************************************************)
(* WebSocketClient.receive, src/main.py:269-296, called in a loop by the   *)
(* reader thread of run_chat_client (lines 334-338), and the socket it     *)
(* reads: the server writes frames, and a recv returns any non-empty       *)
(* prefix of the bytes that have arrived.                                  *)
(***************************************************************************)
\* frames the server writes to the client in one run
MaxWrites == 3

\* the frames the server writes: broadcasts, pongs and the close frame
Written(opcode, text) == [opcode |-> opcode, text |-> text]

\* the server has written its close frame and closed the connection
ServerClosed == wrote # <<>> /\ wrote[Len(wrote)].opcode = OPCODE_CLOSE

\* the texts of the text frames among the frames written, in order
TextsOf(w) ==
    LET texts == SelectSeq(w, LAMBDA f : f.opcode = OPCODE_TEXT)
    IN  [i \in 1..Len(texts) |-> texts[i].text]

\* the client after connect() has returned True (lines 234-241) and the reader
\* thread has been started (line 340)
InitClient ==
    /\ ServerInit
    /\ CodecIdle
    /\ wrote = <<>>
    /\ wire = <<>>
    /\ connected = TRUE
    /\ rpc = "call"
    /\ rbuf = <<>>
    /\ got = <<>>

\* the server writes one more frame to the client's socket: a broadcast
\* (line 176), a pong (line 162) or its close frame (line 186)
ServerWrite ==
    /\ Len(wrote) < MaxWrites
    /\ ~ServerClosed
    /\ \E opcode \in {OPCODE_TEXT, OPCODE_PONG, OPCODE_CLOSE} :
         LET text == IF opcode = OPCODE_TEXT THEN ChatText(Len(wrote) + 1) ELSE <<>>
         IN  /\ wrote' = Append(wrote, Written(opcode, text))
             /\ wire' = wire \o create_frame(utf8_encode(text), opcode, TRUE, Clock)
    /\ UNCHANGED <<connected, rpc, rbuf, got>>
    /\ UNCHANGED serverVars
    /\ UNCHANGED codecVars

\* lines 335-336 and 271-272: while client.connected: client.receive(), which
\* starts with buffer = b''
ClientCall ==
    /\ rpc = "call"
    /\ IF connected
       THEN /\ rbuf' = <<>>
            /\ rpc' = "select"
       ELSE /\ rpc' = "done"
            /\ rbuf' = rbuf
    /\ UNCHANGED <<wrote, wire, connected, got>>
    /\ UNCHANGED serverVars
    /\ UNCHANGED codecVars

\* lines 274-280: select, recv, buffer += data; b'' after the server closed
ClientRecv ==
    /\ rpc = "select"
    /\ \/ /\ wire # <<>>
          /\ \E k \in 1..Len(wire) :
                /\ rbuf' = rbuf \o SubSeq(wire, 1, k)
                /\ wire' = SubSeq(wire, k + 1, Len(wire))
          /\ rpc' = "parse"
          /\ UNCHANGED connected
       \/ /\ wire = <<>>
          /\ ServerClosed
          /\ connected' = FALSE
          /\ rpc' = "call"
          /\ UNCHANGED <<wire, rbuf>>
    /\ UNCHANGED <<wrote, got>>
    /\ UNCHANGED serverVars
    /\ UNCHANGED codecVars

\* lines 282-292: parse the next frame of the buffer; a text frame is
\* returned to the caller, and with the return the local buffer is gone
ClientParse ==
    /\ rpc = "parse"
    /\ LET p == parse_frame(rbuf)
           rest == Slice(rbuf, p.frame_len, Len(rbuf))
       IN  CASE rbuf = <<>> \/ p.opcode = -1 ->
                  /\ rpc' = "select"
                  /\ UNCHANGED <<rbuf, got, connected>>
             [] rbuf # <<>> /\ p.opcode = OPCODE_TEXT /\ utf8_valid(p.payload) ->
                  /\ got' = Append(got, utf8_decode(p.payload))
                  /\ rbuf' = rest
                  /\ rpc' = "call"
                  /\ UNCHANGED connected
             [] rbuf # <<>> /\ p.opcode = OPCODE_TEXT /\ ~utf8_valid(p.payload) ->
                  \* UnicodeDecodeError is not caught (line 293): the thread ends
                  /\ rbuf' = rest
                  /\ rpc' = "crashed"
                  /\ UNCHANGED <<got, connected>>
             [] rbuf # <<>> /\ p.opcode = OPCODE_CLOSE ->
                  /\ connected' = FALSE
                  /\ rbuf' = rest
                  /\ rpc' = "call"
                  /\ UNCHANGED got
             [] OTHER ->
                  /\ rbuf' = rest
                  /\ UNCHANGED <<rpc, got, connected>>
    /\ UNCHANGED <<wrote, wire>>
    /\ UNCHANGED serverVars
    /\ UNCHANGED codecVars

NextClient == ServerWrite \/ ClientCall \/ ClientRecv \/ ClientParse

SpecClient == InitClient /\ [][NextClient]_vars

(***************************************************************************)
(* What the claims speak of.                                               *)
(***************************************************************************)
\* the text frame carrying `message` has been written to socket c
Received(c, message) ==
    \E i \in 1..Len(tx[c]) :
        tx[c][i].opcode = OPCODE_TEXT /\ tx[c][i].payload = utf8_encode(message)

\* how many times
Count(c, message) ==
    Cardinality({i \in 1..Len(tx[c]) :
        tx[c][i].opcode = OPCODE_TEXT /\ tx[c][i].payload = utf8_encode(message)})

\* some thread is still inside the call of broadcast(message, ...)
InFlightCall(message) ==
    \E t \in Threads : \E i \in 1..Len(stack[t]) :
        stack[t][i].fn = "broadcast" /\ stack[t][i].message = message

\* some thread is inside close_client(c)
Closing(c) ==
    \E t \in Threads : \E i \in 1..Len(stack[t]) :
        stack[t][i].fn = "close_client" /\ stack[t][i].sock = c

\* thread t is inside Admit (lines 208-209), Remove or Broadcast
InHub(t) == stack[t] # <<>> \/ (t = ListenerThread /\ pc[t] = "join")

\* no thread is between the steps of an Admit, a Remove or a Broadcast
HubQuiet == \A t \in Threads : ~InHub(t) /\ pc[t] # "admit"

\* C1: a connection is a key of clients if and only if it has completed the
\* handshake, its display name has been received and its transport has not
\* been closed. Stated for the states in which no thread is in the middle of a
\* registry operation, where it has to hold even if these were atomic.
C1_RegistryIff ==
    HubQuiet =>
        \A c \in Conns : InClients(c) <=> (hs[c] = "ok" /\ ident[c] /\ ~sockClosed[c])

\* C2: a chat message decoded by the session of a registered connection A is
\* never written to A, and once the call of broadcast is over it has been
\* written to every connection that was registered when the call was made,
\* other than A (a write may only fail on a socket that is closed or reset).
C2_BroadcastExclusion ==
    \A r \in calls :
        (r.sender # NoSock /\ r.registered) =>
            /\ ~Received(r.sender, r.message)
            /\ ~InFlightCall(r.message) =>
                  \A b \in r.targets : Received(b, r.message) \/ SendFails(b)

\* the close path of A, which sent a close frame while registered, has finished
ClosePathDone(a) ==
    /\ a \in closeSeen
    /\ SessionOver(a)
    /\ ~Closing(a)
    /\ ~InFlightCall(LeaveText(NameOf(a)))

\* C3: once the close path of a connection A that sent a close frame has
\* finished, A is not in the registry and every connection that was registered
\* with A and still is has received "<name of A> has left the chat" exactly
\* once; nobody ever receives it twice.
C3_LeaveExactlyOnce ==
    /\ \A a \in Conns : ClosePathDone(a) =>
          /\ ~InClients(a)
          /\ \A b \in removedWith[a] \ {a} :
                InClients(b) => Count(b, LeaveText(NameOf(a))) = 1
    /\ \A a \in Conns : \A b \in Conns : Count(b, LeaveText(NameOf(a))) <= 1

\* C4: at no time are two threads inside Admit, Remove or Broadcast.
C4_HubMutualExclusion ==
    \A t1 \in Threads : \A t2 \in Threads : (InHub(t1) /\ InHub(t2)) => t1 = t2

\* C5: a failed write to one target of a broadcast closes only that target:
\* a session ends, and a connection leaves the registry, only when its own peer
\* has closed or reset, its own socket was closed, or the server is stopping;
\* and every broadcast that is over has written its message to every target
\* whose socket is neither closed nor reset.
C5_FailureIsolation ==
    /\ \A c \in Conns :
          pc[c] \in {"finally", "exit"} => (peer[c] # "up" \/ sockClosed[c] \/ ~running)
    /\ \A c \in Conns :
          removedWith[c] # {} => (peer[c] # "up" \/ ~running)
    /\ \A r \in calls :
          ~InFlightCall(r.message) =>
              \A b \in r.targets : Received(b, r.message) \/ SendFails(b)

\* C6: two recipients that both receive the same two broadcast messages receive
\* them in the same order.
C6_OneOrder ==
    \A b1 \in Conns : \A b2 \in Conns :
        \A i \in 1..Len(tx[b1]) : \A j \in 1..Len(tx[b1]) :
            \A k \in 1..Len(tx[b2]) : \A l \in 1..Len(tx[b2]) :
                ~ ( /\ i < j /\ k < l
                    /\ tx[b1][i].opcode = OPCODE_TEXT
                    /\ tx[b1][j].opcode = OPCODE_TEXT
                    /\ tx[b1][i] = tx[b2][l]
                    /\ tx[b1][j] = tx[b2][k] )

\* C7: while running is true, no step of the handshake or of the identity read
\* of a connecting client ends the accept loop.
C7_ListenerSurvives ==
    [][ (pc[ListenerThread] \in {"handshake", "identity"} /\ running')
            => pc'[ListenerThread] # "done" ]_vars

\* C8: every frame the server writes to a connection has the MASK bit clear.
C8_ServerFramesUnmasked ==
    \A c \in Conns : \A i \in 1..Len(tx[c]) : ~tx[c][i].mask

C10_FailedHandshakeClosed ==
    \A c \in Conns : (hs[c] = "failed" /\ pc[ListenerThread] = "accept") => sockClosed[c]

\* stop() has returned (it did not raise)
StopReturned == pc[StopThread] = "done" /\ exc[StopThread] = "none"

\* C11: after stop() has run to completion, running is false, the listening
\* socket is closed, the registry is empty, and every connection that was
\* ever registered has had its transport closed.
C11_StopComplete ==
    StopReturned =>
        /\ ~running
        /\ lsockClosed
        /\ clients = <<>>
        /\ \A c \in Conns : removedWith[c] # {} => sockClosed[c]

\* the next step of thread t is a send on socket s: a round of broadcast's
\* loop (line 176) or the close frame of close_client (line 186)
SendsNext(t, s) ==
    /\ stack[t] # <<>>
    /\ \/ Top(stack[t]).fn = "broadcast" /\ Head(Top(stack[t]).targets) = s
       \/ /\ Top(stack[t]).fn = "close_client"
          /\ Top(stack[t]).at = "send"
          /\ Top(stack[t]).sock = s

\* the next step of the session of s is the pong of line 162
PongNext(s) ==
    /\ pc[s] = "dispatch"
    /\ stack[s] = <<>>
    /\ parse_frame(buffer[s]).opcode = OPCODE_PING

\* C17: once close_client has closed the transport of a connection, no thread
\* takes a step that selects, reads or writes on that socket: not its own
\* session (lines 140-144, 162), not a broadcast or a close_client running in
\* any thread (lines 176, 186).
C17_ClosedIsTerminal ==
    [][ \A s \in Conns : sockClosed[s] =>
            /\ pc[s] = "select" => pc'[s] = "select"
            /\ PongNext(s) => (pc'[s] = pc[s] /\ buffer'[s] = buffer[s])
            /\ \A t \in Threads : SendsNext(t, s) => stack'[t] = stack[t]
      ]_vars

\* C18: a registered connection whose I/O failed (its peer reset the
\* connection) and that has been through close_client is out of the registry
\* and its transport has been closed.
C18_ErrorEndsClosed ==
    \A c \in Conns :
        (peer[c] = "reset" /\ removedWith[c] # {} /\ ~Closing(c))
            => (~InClients(c) /\ sockClosed[c])

\* the session of registered connection c handles a ping frame in this step,
\* and its socket can be written
PingStep(c) ==
    /\ PongNext(c)
    /\ InClients(c)
    /\ ~SendFails(c)
    /\ <<pc[c], buffer[c]>>' # <<pc[c], buffer[c]>>

\* C19: the step that handles a ping from registered connection A writes
\* exactly one frame, a pong with the payload of the ping, to A, writes
\* nothing to any other connection and leaves the registry as it is.
C19_PingPong ==
    [][ \A c \in Conns : PingStep(c) =>
            /\ Len(tx'[c]) = Len(tx[c]) + 1
            /\ SubSeq(tx'[c], 1, Len(tx[c])) = tx[c]
            /\ tx'[c][Len(tx'[c])].opcode = OPCODE_PONG
            /\ tx'[c][Len(tx'[c])].payload = parse_frame(buffer[c]).payload
            /\ \A d \in Conns \ {c} : tx'[d] = tx[d]
            /\ clients' = clients
      ]_vars

\* a frame has been encoded and all of it has been handed to parse_frame
FedWhole == cframe # <<>> /\ cdata = cframe

\* C13: parse_frame on a strict prefix of a valid frame returns the Incomplete
\* result (opcode None, consumed 0), wherever the prefix ends; on the
\* accumulated whole frame it returns the frame's opcode, payload and FIN bit
\* and consumes the frame's length, however the bytes were split.
C13_PrefixIncomplete ==
    /\ (cframe # <<>> /\ Len(cdata) < Len(cframe)) => cout = Incomplete
    /\ FedWhole =>
          /\ cout.opcode = cin.opcode
          /\ cout.payload = cin.payload
          /\ cout.fin = cin.fin
          /\ cout.frame_len = Len(cframe)

\* parse_frame has been called on a frame with the 2-byte extended length of
\* which every byte but the last has arrived
C13_Witness ==
    /\ Len(cin.payload) = 126
    /\ cin.by = "create_frame"
    /\ Len(cdata) = Len(cframe) - 1
    /\ cout = Incomplete

\* C14: parse_frame(create_frame(payload, opcode)) returns the same opcode,
\* the same payload, fin = true and a consumed count equal to the length of
\* the encoded frame, for every opcode and for payloads of 0, 125, 126, 65535
\* and 65536 bytes among others.
C14_RoundTrip ==
    (FedWhole /\ cin.by = "create_frame") =>
        parse_frame(create_frame(cin.payload, cin.opcode, TRUE, cin.t)) =
            [opcode |-> cin.opcode, payload |-> cin.payload,
             payload_len |-> Len(cin.payload), fin |-> TRUE,
             frame_len |-> Len(cframe)]

\* a round trip at the first length that needs the 2-byte extended length
C14_Witness ==
    /\ FedWhole
    /\ cin.by = "create_frame"
    /\ Len(cin.payload) = 126
    /\ cin.opcode = OPCODE_PONG
    /\ cout.payload_len = 126
    /\ cout.frame_len = 134

\* s is t or the start of t
IsPrefix(s, t) == Len(s) <= Len(t) /\ SubSeq(t, 1, Len(s)) = s

\* the reader has nothing left to read or to parse: it waits in select with
\* an empty buffer and an empty socket, or it has returned for good
ReaderDrained ==
    \/ rpc = "select" /\ wire = <<>> /\ rbuf = <<>>
    \/ rpc \in {"done", "crashed"}

\* C16: the values receive() returns are the texts the server wrote, in the
\* order written, and once the reader has consumed every byte that was
\* written, receive() has returned every one of them.
C16_ClientReceivesAll ==
    /\ IsPrefix(got, TextsOf(wrote))
    /\ ReaderDrained => got = TextsOf(wrote)

\* the session of c waits for input, and nothing c sent is unread
SessionWaits(c) ==
    /\ pc[c] = "select"
    /\ stack[c] = <<>>
    /\ inflight[c] = <<>>
    /\ peer[c] = "up"
    /\ InClients(c)

\* C12: the display name of a connection is never broadcast as a chat message
\* of that connection, and once the session of a registered connection has
\* read all the connection sent, every chat frame it sent in one piece after
\* its name has been passed to broadcast, unchanged, with that connection as
\* the sender.
C12_NameThenChat ==
    /\ \A r \in calls : \A i \in 1..Len(clients) :
          r.sender = clients[i].sock => r.message # clients[i].username
    /\ \A c \in Conns : SessionWaits(c) =>
          \A m \in sent : (m.sender = c /\ m.pieces = 1) =>
              \E r \in calls : r.sender = c /\ r.message = m.message

\* C15: a recv of the session loop keeps the bytes received before it and not
\* yet consumed by a complete frame: they are the start of the buffer that is
\* parsed next.
C15_BytesRetained ==
    [][ \A c \in Conns : (pc[c] = "select" /\ pc'[c] = "dispatch")
            => IsPrefix(buffer[c], buffer'[c]) ]_vars

\* start() is in _handshake (line 202) or in the identity read (line 204) of
\* the connection it accepted last
ListenerServesOne == pc[ListenerThread] \in {"handshake", "identity"}

\* C20: a connection that has been accepted and has not finished its
\* handshake or sent its name does not keep the listener: whenever the
\* listener is in the handshake or the identity read of a connection, it
\* eventually leaves them, so that it can get back to accept for the next
\* client.
C20_ListenerComesBack == ListenerServesOne ~> ~ListenerServesOne

====
